---- MODULE Spec2Model ----
(***************************************************************************)
(* CreditRadar (src/src/App.jsx): the ledger store kept in React state,    *)
(* its handlers, the add-transaction drawer and the localStorage           *)
(* persistence.                                                            *)
(*                                                                         *)
(* Representation.  A platform name is a sequence of one-character         *)
(* strings, so that String.prototype.trim and toLowerCase are computed.    *)
(* Every other string field is a TLA+ string.  A calendar date             *)
(* ("YYYY-MM-DD") is its day number; the order of the ISO strings is the   *)
(* order of the day numbers.  An id made by crypto.randomUUID() is a       *)
(* fresh natural number.                                                   *)
(***************************************************************************)
EXTENDS Integers, Sequences, FiniteSets, TLC

\* ------------------------------------------------------------------ bounds

\* How many entries of PLATFORM_PRESETS (in source order) the model keeps.
NumPresets == 2
\* How many store-changing events (events that call setState on the store)
\* a behaviour may hold.
MaxOps == 2

\* ------------------------------------------------------------------ strings

UpperChars == <<"A","B","C","D","E","F","G","H","I","J","K","L","M",
                "N","O","P","Q","R","S","T","U","V","W","X","Y","Z">>
LowerChars == <<"a","b","c","d","e","f","g","h","i","j","k","l","m",
                "n","o","p","q","r","s","t","u","v","w","x","y","z">>
WhiteSpace == {" ", "\t", "\n"}

LowerOf == [c \in {UpperChars[i] : i \in 1..Len(UpperChars)} |->
              LowerChars[CHOOSE i \in 1..Len(UpperChars) : UpperChars[i] = c]]

toLowerChar(c) == IF c \in DOMAIN LowerOf THEN LowerOf[c] ELSE c

RECURSIVE toLowerCase(_)
toLowerCase(s) ==
  IF s = <<>> THEN <<>> ELSE <<toLowerChar(Head(s))>> \o toLowerCase(Tail(s))

RECURSIVE trimStart(_)
trimStart(s) ==
  IF s # <<>> /\ Head(s) \in WhiteSpace THEN trimStart(Tail(s)) ELSE s

RECURSIVE trimEnd(_)
trimEnd(s) ==
  IF s # <<>> /\ s[Len(s)] \in WhiteSpace
  THEN trimEnd(SubSeq(s, 1, Len(s) - 1)) ELSE s

trim(s) == trimEnd(trimStart(s))

\* ------------------------------------------------------------------ values

\* A JavaScript value handed to Number(): a number, a string that is not
\* numeric, or undefined (an absent field).
Num(n) == [t |-> "num", n |-> n, s |-> ""]
StrV(x) == [t |-> "str", n |-> 0, s |-> x]
Undef == [t |-> "undef", n |-> 0, s |-> ""]

\* Number(v) || 0 : NaN (a non-numeric string, undefined) and 0 are falsy.
NumberOrZero(v) == IF v.t = "num" THEN v.n ELSE 0

\* x || d for strings: the empty string is falsy.
OrDefault(x, d) == IF x = "" THEN d ELSE x

\* ------------------------------------------------------------------ presets

Higgsfield == <<"H","i","g","g","s","f","i","e","l","d">>
Suno == <<"S","u","n","o">>
GoogleFlow == <<"G","o","o","g","l","e"," ","F","l","o","w">>
Runway == <<"R","u","n","w","a","y">>
Pika == <<"P","i","k","a">>
Luma == <<"L","u","m","a">>

AllPresets == <<
  [key |-> Higgsfield, color |-> "#34d399"],
  [key |-> Suno,       color |-> "#60a5fa"],
  [key |-> GoogleFlow, color |-> "#fbbf24"],
  [key |-> Runway,     color |-> "#f472b6"],
  [key |-> Pika,       color |-> "#a78bfa"],
  [key |-> Luma,       color |-> "#22d3ee"] >>

PLATFORM_PRESETS ==
  SubSeq(AllPresets, 1, IF NumPresets < Len(AllPresets) THEN NumPresets ELSE Len(AllPresets))

PresetKeys == {PLATFORM_PRESETS[i].key : i \in 1..Len(PLATFORM_PRESETS)}

\* The day number of new Date().toISOString().slice(0,10).
Today == 20

RECURSIVE SelectSeq2(_, _)
\* s.filter(...) for a sequence of records, keeping those whose platform is in names
SelectSeq2(s, names) ==
  IF s = <<>> THEN <<>>
  ELSE (IF Head(s).platform \in names THEN <<Head(s)>> ELSE <<>>) \o SelectSeq2(Tail(s), names)

AllDemo == <<
  [platform |-> Higgsfield, amount |-> -120, project |-> "Bug City trailer", note |-> "4 x 30s gens",      date |-> Today - 1],
  [platform |-> Suno,       amount |-> -40,  project |-> "NeonShore EP",     note |-> "2 songs v4",        date |-> Today - 2],
  [platform |-> Runway,     amount |-> -60,  project |-> "FCG Reel",         note |-> "Gen-3 alpha shots", date |-> Today - 4],
  [platform |-> GoogleFlow, amount |-> -30,  project |-> "Pitch deck",       note |-> "text-to-video",     date |-> Today - 6],
  [platform |-> Pika,       amount |-> -25,  project |-> "Meme pack",        note |-> "shorts",            date |-> Today - 9],
  [platform |-> Luma,       amount |-> -50,  project |-> "Desert MV",        note |-> "lighting tests",    date |-> Today - 12] >>

\* demoTransactions(), for the presets the model keeps; ids follow the
\* platforms' ids.
demoTransactions ==
  LET kept == SelectSeq2(AllDemo, PresetKeys)
  IN [i \in 1..Len(kept) |->
        [id |-> Len(PLATFORM_PRESETS) + i, platform |-> kept[i].platform,
         amount |-> kept[i].amount, project |-> kept[i].project,
         note |-> kept[i].note, date |-> kept[i].date]]

initialState ==
  [platforms |->
     [i \in 1..Len(PLATFORM_PRESETS) |->
        [id |-> i, name |-> PLATFORM_PRESETS[i].key, credits |-> 1000,
         color |-> PLATFORM_PRESETS[i].color, unit |-> "credits",
         account |-> "main", monthlyAllowance |-> 0]],
   transactions |-> demoTransactions]

\* The first id crypto.randomUUID() hands out after the module is loaded.
FirstFreshId == Len(initialState.platforms) + Len(initialState.transactions) + 1

\* ------------------------------------------------------------------ JSON

\* A JSON scalar: a number, a plain string, a name (string of characters) or
\* an ISO date string (held as its day number).
JNum(n) == [t |-> "num", n |-> n, s |-> "", cs |-> <<>>]
JStr(x) == [t |-> "str", n |-> 0, s |-> x, cs |-> <<>>]
JChars(c) == [t |-> "chars", n |-> 0, s |-> "", cs |-> c]
JDate(d) == [t |-> "date", n |-> d, s |-> "", cs |-> <<>>]
\* A randomUUID string, held as its number.
JId(i) == [t |-> "id", n |-> i, s |-> "", cs |-> <<>>]

\* JSON.stringify of one platform / one transaction: the members in the order
\* the object literal lists them.
StringifyPlatform(p) ==
  << <<"id", JId(p.id)>>, <<"name", JChars(p.name)>>, <<"credits", JNum(p.credits)>>,
     <<"color", JStr(p.color)>>, <<"unit", JStr(p.unit)>>, <<"account", JStr(p.account)>>,
     <<"monthlyAllowance", JNum(p.monthlyAllowance)>> >>

StringifyTransaction(t) ==
  << <<"id", JId(t.id)>>, <<"platform", JChars(t.platform)>>, <<"amount", JNum(t.amount)>>,
     <<"project", JStr(t.project)>>, <<"note", JStr(t.note)>>, <<"date", JDate(t.date)>> >>

JArray(items) == [t |-> "array", items |-> items]
JNull == [t |-> "null", items |-> <<>>]

\* The item under the storage key: absent, or a text that is empty, not JSON,
\* the literal null, a number literal, or an object with the given members.
Missing == [exists |-> FALSE, syntax |-> "empty", members |-> <<>>]
Text(syntax, members) == [exists |-> TRUE, syntax |-> syntax, members |-> members]

\* JSON.stringify(state)
Stringify(state) ==
  Text("object",
       << <<"platforms", JArray([i \in 1..Len(state.platforms) |-> StringifyPlatform(state.platforms[i])])>>,
          <<"transactions", JArray([i \in 1..Len(state.transactions) |-> StringifyTransaction(state.transactions[i])])>> >>)

\* obj[k] of a parsed JSON object: the last member named k.
HasMember(obj, k) == \E i \in 1..Len(obj) : obj[i][1] = k
Member(obj, k) ==
  LET at == {i \in 1..Len(obj) : obj[i][1] = k}
  IN obj[CHOOSE i \in at : \A j \in at : j <= i][2]

ParsePlatform(o) ==
  [id |-> Member(o, "id").n, name |-> Member(o, "name").cs,
   credits |-> Member(o, "credits").n, color |-> Member(o, "color").s,
   unit |-> Member(o, "unit").s, account |-> Member(o, "account").s,
   monthlyAllowance |-> Member(o, "monthlyAllowance").n]

ParseTransaction(o) ==
  [id |-> Member(o, "id").n, platform |-> Member(o, "platform").cs,
   amount |-> Member(o, "amount").n, project |-> Member(o, "project").s,
   note |-> Member(o, "note").s, date |-> Member(o, "date").n]

\* Variant of TransactionsOr: an absent member gives an empty list (parsed.transactions || []).
TransactionsOrEmpty(members, dflt) ==
  IF HasMember(members, "transactions") /\ Member(members, "transactions").t = "array"
  THEN LET a == Member(members, "transactions").items
       IN [i \in 1..Len(a) |-> ParseTransaction(a[i])]
  ELSE <<>>

\* parsed.platforms ?? initialState.platforms : the default replaces an
\* absent member and a null one.
PlatformsOr(members, dflt) ==
  IF HasMember(members, "platforms") /\ Member(members, "platforms").t = "array"
  THEN LET a == Member(members, "platforms").items
       IN [i \in 1..Len(a) |-> ParsePlatform(a[i])]
  ELSE dflt

TransactionsOr(members, dflt) ==
  IF HasMember(members, "transactions") /\ Member(members, "transactions").t = "array"
  THEN LET a == Member(members, "transactions").items
       IN [i \in 1..Len(a) |-> ParseTransaction(a[i])]
  ELSE dflt

\* loadState(): raw is the item localStorage.getItem returns.
loadState(raw) ==
  IF ~raw.exists \/ raw.syntax = "empty" THEN initialState          \* if (!raw)
  ELSE IF raw.syntax = "invalid" THEN initialState                  \* JSON.parse throws
  ELSE IF raw.syntax = "null" THEN initialState                     \* null.platforms throws
  ELSE IF raw.syntax = "number"
       THEN [platforms |-> initialState.platforms,
             transactions |-> initialState.transactions]
  ELSE [platforms |-> PlatformsOr(raw.members, initialState.platforms),
        transactions |-> TransactionsOr(raw.members, initialState.transactions)]

\* Variant of saveState: only the platforms are written.
saveStatePlatformsOnly(state) ==
  Text("object",
       << <<"platforms", JArray([i \in 1..Len(state.platforms) |-> StringifyPlatform(state.platforms[i])])>> >>)

\* saveState(state): the item it leaves under the storage key.
saveState(state) == Stringify(state)

\* ------------------------------------------------------------------ state

VARIABLES
  state,      \* useState(loadState): [platforms, transactions], as last rendered
  storage,    \* the item under localStorage key "ai-credit-tracker"
  showAdd,    \* the Add Platform modal is open
  showNew,    \* the NEW (custom) platform modal is open
  editing,    \* id of the platform being edited, 0 for null
  showTxn,    \* the TransactionDrawer is open
  drawer,     \* the TransactionDrawer's own state: form, newPf, makeNew
  nextId,     \* the next id crypto.randomUUID() returns
  mounted,    \* App has been mounted
  loadedRaw,  \* history: the storage item loadState read, if the last event is a mount
  ops,        \* history: number of events that changed the store
  prev,       \* history: the store when the last handler was entered
  lastOp,     \* history: the last handler and its arguments
  renders,    \* history: the stores the last event committed (rendered and saved)
  view,       \* what the last render computed: totalCredits, dailyBurn, forecastDays, the cards' series
  csvRows,    \* the rows handed to the CSV serializer
  csvOut,     \* the text the CSV serializer returned
  renamed     \* history: <<id, name>> for every name a rename has taken from a platform

vars == <<state, storage, showAdd, showNew, editing, showTxn, drawer, nextId,
          mounted, loadedRaw, ops, prev, lastOp, renders, view, csvRows, csvOut,
          renamed>>

uiVars == <<showAdd, showNew, editing, showTxn, drawer>>

\* ------------------------------------------------------------------ inputs

\* The text and number fields of a form are inputs of the click that submits
\* the form: typing is possible at any time and only overwrites the field.
\* What a handler writes into a form (form.platform, makeNew) is state.

suno == <<"s","u","n","o">>
Veo == <<"V","e","o">>

\* What the user types into a name field of a create form.
NameInputs == { <<>>, <<" ">>, suno, <<" ">> \o Veo }
\* What the user types into the name field of the edit form.
RenameInputs == { suno }
\* custom.credits as handed to addCustomPlatform: a number, a non-numeric
\* string, or absent.
CreditInputs == { Num(50), StrV("abc"), Undef }
\* The forms handed to addCustomPlatform by NewPlatformModal: each name with
\* the form's default balance, and a new name with each balance.
CustomInputs ==
  { <<name, Num(0)>> : name \in NameInputs } \cup { << <<" ">> \o Veo, c >> : c \in CreditInputs }
\* What the user types into the balance field of the edit form.
EditCreditInputs == { 500 }
\* The edit form as the user leaves it: untouched, renamed, or rebalanced.
EditInputs(p) ==
  { <<p.name, p.credits>> } \cup { <<n, p.credits>> : n \in RenameInputs }
    \cup { <<p.name, c>> : c \in EditCreditInputs }
\* What the Amount field of the drawer holds when Add is clicked: its default
\* or what the user typed.
AmountInputs == { -10, 25 }

\* ------------------------------------------------------------------ updaters

\* The functions handed to setState; each maps the pending store s to the next.

\* s => ({...s, platforms: [...s.platforms, p]})
AppendPlatform(s, p) == [s EXCEPT !.platforms = Append(@, p)]

\* {...p, ...patch}
Merge(p, patch) == [k \in DOMAIN p |-> IF k \in DOMAIN patch THEN patch[k] ELSE p[k]]

\* Variant of MapPatch: a new name is also written into the transactions that
\* carry the platform's old name.
MapPatchRenaming(s, id, patch) ==
  LET named == {s.platforms[i].name : i \in {j \in 1..Len(s.platforms) : s.platforms[j].id = id}}
  IN [platforms |-> [i \in 1..Len(s.platforms) |->
                       IF s.platforms[i].id = id THEN Merge(s.platforms[i], patch)
                       ELSE s.platforms[i]],
      transactions |-> [i \in 1..Len(s.transactions) |->
                          IF "name" \in DOMAIN patch /\ s.transactions[i].platform \in named
                          THEN [s.transactions[i] EXCEPT !.platform = patch.name]
                          ELSE s.transactions[i]]]

\* s => ({...s, platforms: s.platforms.map(p => p.id === id ? {...p, ...patch} : p)})
MapPatch(s, id, patch) ==
  [s EXCEPT !.platforms =
     [i \in 1..Len(@) |-> IF @[i].id = id THEN Merge(@[i], patch) ELSE @[i]]]

\* platformMap[name]?.id ?? null, with 0 for null: Object.fromEntries keeps
\* the last platform of a name.
PlatformMapId(platforms, name) ==
  IF \E i \in 1..Len(platforms) : platforms[i].name = name
  THEN platforms[CHOOSE i \in 1..Len(platforms) :
                   /\ platforms[i].name = name
                   /\ \A j \in (i+1)..Len(platforms) : platforms[j].name # name].id
  ELSE 0

\* Variant of FilterOut: the platform is removed, its transactions stay.
FilterOutNoCascade(s, id, rendered) ==
  LET KeepP(p) == p.id # id
  IN [platforms |-> SelectSeq(s.platforms, KeepP), transactions |-> s.transactions]

\* Variant of FilterOut: the transactions that name no remaining platform are
\* removed as well.
FilterOutOrphans(s, id, rendered) ==
  LET KeepP(p) == p.id # id
      left == SelectSeq(s.platforms, KeepP)
      KeepT(t) == \E i \in 1..Len(left) : left[i].name = t.platform
  IN [platforms |-> left, transactions |-> SelectSeq(s.transactions, KeepT)]

\* s => ({...s, platforms: filter, transactions: filter}); rendered is the
\* platform list platformMap was built from.
FilterOut(s, id, rendered) ==
  LET found == \E i \in 1..Len(s.platforms) : s.platforms[i].id = id
      name == s.platforms[CHOOSE i \in 1..Len(s.platforms) : s.platforms[i].id = id].name
      KeepP(p) == p.id # id
      KeepT(t) == /\ PlatformMapId(rendered, t.platform) # id
                  /\ (found => t.platform # name)
  IN [platforms |-> SelectSeq(s.platforms, KeepP),
      transactions |-> SelectSeq(s.transactions, KeepT)]

\* s => ({...s, transactions: [{id, ...txn}, ...s.transactions]})
Prepend(s, t) == [s EXCEPT !.transactions = <<t>> \o @]

\* One queued setState call.
Upd(u, platform, id, patch, txn, rendered) ==
  [u |-> u, platform |-> platform, id |-> id, patch |-> patch, txn |-> txn, rendered |-> rendered]

ApplyUpdater(s, q) ==
  CASE q.u = "append"  -> AppendPlatform(s, q.platform)
    [] q.u = "patch"   -> MapPatch(s, q.id, q.patch)
    [] q.u = "filter"  -> FilterOut(s, q.id, q.rendered)
    [] q.u = "prepend" -> Prepend(s, q.txn)

RECURSIVE Fold(_, _)
Fold(s, queue) == IF queue = <<>> THEN s ELSE Fold(ApplyUpdater(s, Head(queue)), Tail(queue))

RECURSIVE FoldEach(_, _)
\* Variant of Flush: every setState call is committed on its own.
FoldEach(s, queue) ==
  IF queue = <<>> THEN <<>>
  ELSE << ApplyUpdater(s, Head(queue)) >> \o FoldEach(ApplyUpdater(s, Head(queue)), Tail(queue))

FlushEach(s, queue) == FoldEach(s, queue)

\* The stores React commits for one event: the setState calls of an event
\* handler are batched, so the queue is applied whole and rendered once.
Flush(s, queue) == IF queue = <<>> THEN <<>> ELSE << Fold(s, queue) >>

\* ------------------------------------------------------------------ handlers

\* What a handler of App does in one call: the setState calls it queues on the
\* store and the modals it closes.  An alert() and an early return give None.
Effect(queue, closeAdd, closeNew) == [queue |-> queue, closeAdd |-> closeAdd, closeNew |-> closeNew]
None == Effect(<<>>, FALSE, FALSE)

NoPlatform == [id |-> 0, name |-> <<>>, credits |-> 0, color |-> "", unit |-> "",
               account |-> "", monthlyAllowance |-> 0]
NoTxn == [id |-> 0, platform |-> <<>>, amount |-> 0, project |-> "", note |-> "", date |-> 0]

PresetColor(presetName) ==
  IF \E i \in 1..Len(PLATFORM_PRESETS) : PLATFORM_PRESETS[i].key = presetName
  THEN PLATFORM_PRESETS[CHOOSE i \in 1..Len(PLATFORM_PRESETS) : PLATFORM_PRESETS[i].key = presetName].color
  ELSE "#64748b"

\* state.platforms.some(p => p.name === presetName)
ExistsExact(platforms, name) == \E i \in 1..Len(platforms) : platforms[i].name = name

\* state.platforms.some(p => p.name.toLowerCase() === trimmed.toLowerCase())
ExistsIgnoreCase(platforms, trimmed) ==
  \E i \in 1..Len(platforms) : toLowerCase(platforms[i].name) = toLowerCase(trimmed)

\* addPlatform(presetName), with id the randomUUID it draws
addPlatform(presetName, id) ==
  IF presetName = <<>> THEN None
  ELSE IF ExistsExact(state.platforms, presetName) THEN None   \* alert("Platform already added.")
  ELSE Effect(<< Upd("append",
                     [id |-> id, name |-> presetName, credits |-> 0,
                      color |-> PresetColor(presetName), unit |-> "credits",
                      account |-> "main", monthlyAllowance |-> 0],
                     0, <<>>, NoTxn, <<>>) >>, TRUE, FALSE)

\* Variant of addCustomPlatform: the name is required before trimming.
addCustomPlatformNoTrim(custom, id) ==
  LET trimmed == trim(custom.name)
  IN IF custom.name = <<>> THEN None
     ELSE IF ExistsIgnoreCase(state.platforms, trimmed) THEN None
     ELSE Effect(<< Upd("append",
                        [id |-> id, name |-> trimmed, credits |-> NumberOrZero(custom.credits),
                         color |-> OrDefault(custom.color, "#64748b"),
                         unit |-> OrDefault(custom.unit, "credits"),
                         account |-> OrDefault(custom.account, "main"),
                         monthlyAllowance |-> NumberOrZero(custom.monthlyAllowance)],
                        0, <<>>, NoTxn, <<>>) >>, TRUE, TRUE)

\* Variant of addCustomPlatform: the starting balance is dropped.
addCustomPlatformZero(custom, id) ==
  LET trimmed == trim(custom.name)
  IN IF trimmed = <<>> THEN None
     ELSE IF ExistsIgnoreCase(state.platforms, trimmed) THEN None
     ELSE Effect(<< Upd("append",
                        [id |-> id, name |-> trimmed, credits |-> 0,
                         color |-> OrDefault(custom.color, "#64748b"),
                         unit |-> OrDefault(custom.unit, "credits"),
                         account |-> OrDefault(custom.account, "main"),
                         monthlyAllowance |-> NumberOrZero(custom.monthlyAllowance)],
                        0, <<>>, NoTxn, <<>>) >>, TRUE, TRUE)

\* addCustomPlatform(custom)
addCustomPlatform(custom, id) ==
  LET trimmed == trim(custom.name)
  IN IF trimmed = <<>> THEN None                               \* alert("Name is required")
     ELSE IF ExistsIgnoreCase(state.platforms, trimmed) THEN None
     ELSE Effect(<< Upd("append",
                        [id |-> id, name |-> trimmed, credits |-> NumberOrZero(custom.credits),
                         color |-> OrDefault(custom.color, "#64748b"),
                         unit |-> OrDefault(custom.unit, "credits"),
                         account |-> OrDefault(custom.account, "main"),
                         monthlyAllowance |-> NumberOrZero(custom.monthlyAllowance)],
                        0, <<>>, NoTxn, <<>>) >>, TRUE, TRUE)

\* updatePlatform(id, patch)
updatePlatform(id, patch) == Effect(<< Upd("patch", NoPlatform, id, patch, NoTxn, <<>>) >>, FALSE, FALSE)

\* removePlatform(id)
removePlatform(id) ==
  Effect(<< Upd("filter", NoPlatform, id, <<>>, NoTxn, state.platforms) >>, FALSE, FALSE)

\* addTransaction(txn)
addTransaction(txn, id) ==
  Effect(<< Upd("prepend", NoPlatform, 0, <<>>,
                [id |-> id, platform |-> txn.platform, amount |-> txn.amount,
                 project |-> txn.project, note |-> txn.note, date |-> txn.date],
                <<>>) >>, FALSE, FALSE)

\* state.platforms.find(p => p.name === name): its index, 0 when there is none
FindByName(platforms, name) ==
  IF ExistsExact(platforms, name)
  THEN CHOOSE i \in 1..Len(platforms) :
         /\ platforms[i].name = name
         /\ \A j \in 1..(i-1) : platforms[j].name # name
  ELSE 0

\* Variant of onCreate: the balance is overwritten with the amount.
onCreateOverwrite(t, id) ==
  LET i == FindByName(state.platforms, t.platform)
      first == addTransaction(t, id).queue
      second == IF i = 0 THEN <<>>
                ELSE updatePlatform(state.platforms[i].id, [credits |-> t.amount]).queue
  IN Effect(first \o second, FALSE, FALSE)

\* The onCreate prop of TransactionDrawer:
\* addTransaction(t); const p = find; if (p) updatePlatform(p.id, {credits: ...})
onCreate(t, id) ==
  LET i == FindByName(state.platforms, t.platform)
      first == addTransaction(t, id).queue
      second == IF i = 0 THEN <<>>
                ELSE updatePlatform(state.platforms[i].id,
                                    [credits |-> state.platforms[i].credits + t.amount]).queue
  IN Effect(first \o second, FALSE, FALSE)

\* ------------------------------------------------------------------ forms

\* useState of NewPlatformModal and of the drawer's newPf
NewForm == [name |-> <<>>, credits |-> Num(0), unit |-> "credits", account |-> "main",
            monthlyAllowance |-> Num(0), color |-> "#22c55e"]

\* useState of EditPlatform
EditForm(p) ==
  [name |-> p.name, credits |-> p.credits, unit |-> OrDefault(p.unit, "credits"),
   account |-> OrDefault(p.account, "main"), monthlyAllowance |-> p.monthlyAllowance,
   color |-> OrDefault(p.color, "#64748b")]

\* useState of TransactionDrawer
OpenedDrawer(platforms) ==
  [form |-> [platform |-> IF platforms = <<>> THEN <<>> ELSE platforms[1].name,
             amount |-> -10, project |-> "", note |-> "", date |-> Today],
   newPf |-> NewForm,
   makeNew |-> FALSE]

\* The drawer is unmounted: its state is gone.
NoDrawer == OpenedDrawer(<<>>)

\* The value of the select's "NEW... (create custom)" option.
NEW_OPTION == <<"_","_","N","E","W","_","_">>

\* ------------------------------------------------------------------ metrics

\* 24 * 3600 * 1000: the length of a day, in ticks of the model's clock.
TicksPerDay == 2
\* Date.now() is Today's midnight (UTC) plus a time of day.
TimesOfDay == 0..(TicksPerDay - 1)

\* new Date(t.date) >= cut, for cut = new Date(Date.now() - 30 days): a date
\* string is parsed as its day's midnight (UTC).
InLast30(date, tod) ==
  date * TicksPerDay >= (Today * TicksPerDay + tod) - 30 * TicksPerDay

\* state.transactions.filter(t => new Date(t.date) >= cut)
last30(transactions, tod) == SelectSeq(transactions, LAMBDA t : InLast30(t.date, tod))

\* Math.abs
Abs(n) == IF n < 0 THEN -n ELSE n

RECURSIVE Spent(_)
\* .filter(t => t.amount < 0).reduce((a, t) => a + Math.abs(t.amount), 0)
Spent(txns) ==
  IF txns = <<>> THEN 0
  ELSE (IF Head(txns).amount < 0 THEN Abs(Head(txns).amount) ELSE 0) + Spent(Tail(txns))

\* +(num / den).toFixed(2), in hundredths, for num >= 0: the n with n / 100
\* nearest to num / den, the larger n of two.
toFixed2(num, den) == (200 * num + den) \div (2 * den)

\* Variant of dailyBurn: every transaction counts, whatever its date.
dailyBurnNoCut(transactions, tod) ==
  IF Len(transactions) = 0 THEN 0 ELSE toFixed2(Spent(transactions), 30)

\* dailyBurn, in hundredths
dailyBurn(transactions, tod) ==
  LET recent == last30(transactions, tod)
  IN IF Len(recent) = 0 THEN 0 ELSE toFixed2(Spent(recent), 30)

RECURSIVE totalCredits(_)
\* state.platforms.reduce((a, p) => a + (Number(p.credits) || 0), 0)
totalCredits(platforms) ==
  IF platforms = <<>> THEN 0
  ELSE totalCredits(SubSeq(platforms, 1, Len(platforms) - 1)) + platforms[Len(platforms)].credits

\* A JavaScript number that is an integer, or Infinity.
Finite(n) == [finite |-> TRUE, n |-> n]
Infinity == [finite |-> FALSE, n |-> 0]

RECURSIVE Pow2(_)
Pow2(n) == IF n = 0 THEN 1 ELSE 2 * Pow2(n - 1)

RECURSIVE Pow2Mod100(_)
\* 2^n modulo 100
Pow2Mod100(n) == IF n = 0 THEN 1 ELSE (2 * Pow2Mod100(n - 1)) % 100

RECURSIVE Log2(_)
\* the k with 2^k <= n < 2^(k+1), for n >= 1
Log2(n) == IF n < 2 THEN 0 ELSE 1 + Log2(n \div 2)

RECURSIVE ShiftUp(_)
ShiftUp(h) == IF h >= 100 THEN 0 ELSE 1 + ShiftUp(2 * h)

\* The t with 100 <= h * 2^t < 200: the double holding h / 100 has the 53-bit
\* mantissa nearest to h * 2^(52 + t) / 100.
Binade(h) == IF h < 100 THEN ShiftUp(h) ELSE 0 - Log2(h \div 100)

\* The double a number with two decimals is held as: 100 * mantissa minus
\* h * 2^(52 + t), which is 0 when h / 100 is a double, negative when the double
\* is below h / 100 and positive when it is above (round to nearest).
DoubleError(h) ==
  LET r == ((h % 100) * Pow2Mod100(52 + Binade(h))) % 100
  IN IF r = 0 THEN 0 ELSE IF r < 50 THEN 0 - r ELSE 100 - r

\* Math.floor(total / burn) in IEEE 754 double arithmetic, burn being the
\* double nearest to h / 100 and total an integer with 100 * |total| < 2^31.
\* The quotient of the doubles is rounded to the nearest double; the result
\* differs from the floor of the exact 100 * total / h only when that is an
\* integer N and the rounded quotient lies on the other side of N.
MathFloorDiv(total, h) ==
  LET N == (100 * total) \div h
      exact == (100 * total) % h = 0
      a == Abs(N)
      k == Log2(a)
      d == DoubleError(h)
      t == Binade(h)
      \* the quotient is below N by more than half the gap to the double before N
      eLow == t + k - 1 - (IF a = Pow2(k) THEN 1 ELSE 0)
      low == IF eLow >= 0 THEN d * a > h * Pow2(eLow) ELSE d * a * Pow2(0 - eLow) > h
      \* the quotient's magnitude is above |N| by at least half the gap to the double after |N|
      eHigh == t + k - 1
      high == IF eHigh >= 0 THEN (0 - d) * a >= h * Pow2(eHigh) ELSE (0 - d) * a * Pow2(0 - eHigh) >= h
  IN IF ~exact \/ N = 0 THEN N
     ELSE IF N > 0 THEN (IF d > 0 /\ low THEN N - 1 ELSE N)
     ELSE (IF d < 0 /\ high THEN N - 1 ELSE N)

\* forecastDays, for dailyBurn in hundredths
forecastDays(total, burn) ==
  IF burn <= 0 THEN Infinity ELSE Finite(MathFloorDiv(total, burn))

RECURSIVE SumAmounts(_)
\* .reduce((a, t) => a + t.amount, 0)
SumAmounts(txns) == IF txns = <<>> THEN 0 ELSE Head(txns).amount + SumAmounts(Tail(txns))

\* The transactions prop of a PlatformCard:
\* state.transactions.filter(t => t.platform === p.name)
CardTransactions(s, p) == SelectSeq(s.transactions, LAMBDA t : t.platform = p.name)

\* Array.from({length: 14})
SeriesLength == 14

\* new Date(Date.now() - (13 - i) days).toISOString().slice(0, 10), whatever
\* the time of day
DayKey(i) == Today - ((SeriesLength - 1) - i)

\* transactions.filter(t => t.date === key).reduce((a, t) => a + t.amount, 0)
dailySpend(transactions, key) ==
  SumAmounts(SelectSeq(transactions, LAMBDA t : t.date = key))

\* Variant of Accumulate: every point holds its own day's sum.
NotAccumulated(days, acc) ==
  [i \in 1..Len(days) |-> [date |-> days[i].date, bal |-> acc + days[i].bal]]

RECURSIVE Accumulate(_, _)
\* let acc = 0; days.map(d => ({...d, bal: (acc += d.bal)}))
Accumulate(days, acc) ==
  IF days = <<>> THEN <<>>
  ELSE << [date |-> Head(days).date, bal |-> acc + Head(days).bal] >>
       \o Accumulate(Tail(days), acc + Head(days).bal)

\* The data of a PlatformCard, for its transactions prop
data(transactions) ==
  Accumulate([i \in 1..SeriesLength |->
                [date |-> DayKey(i - 1), bal |-> dailySpend(transactions, DayKey(i - 1))]],
             0)

\* What a render of App computes from the store: the memoized values and the
\* series of each platform's card.  Date.now() is an input of the render:
\* the values that depend on it are held for each time of day.
Render(s) ==
  [totalCredits |-> totalCredits(s.platforms),
   dailyBurn |-> [tod \in TimesOfDay |-> dailyBurn(s.transactions, tod)],
   forecastDays |-> [tod \in TimesOfDay |->
                       forecastDays(totalCredits(s.platforms), dailyBurn(s.transactions, tod))],
   series |-> [i \in 1..Len(s.platforms) |-> data(CardTransactions(s, s.platforms[i]))]]

\* Nothing has been rendered.
NoView ==
  [totalCredits |-> 0,
   dailyBurn |-> [tod \in TimesOfDay |-> 0],
   forecastDays |-> [tod \in TimesOfDay |-> Infinity],
   series |-> <<>>]

\* ------------------------------------------------------------------ CSV

RECURSIVE replaceAllQuotes(_)
\* String(v).replaceAll('"', '""'), for the characters of String(v)
replaceAllQuotes(cs) ==
  IF cs = <<>> THEN <<>>
  ELSE (IF Head(cs) = "\"" THEN <<"\"", "\"">> ELSE <<Head(cs)>>) \o replaceAllQuotes(Tail(cs))

\* Variant of Field: the value is quoted as it is.
FieldUnescaped(v) == <<"\"">> \o v \o <<"\"">>

\* v => `"${String(v).replaceAll('"','""')}"`
Field(v) == <<"\"">> \o replaceAllQuotes(v) \o <<"\"">>

RECURSIVE join(_, _)
\* Array.prototype.join
join(parts, sep) ==
  IF parts = <<>> THEN <<>>
  ELSE IF Len(parts) = 1 THEN parts[1]
  ELSE parts[1] \o sep \o join(Tail(parts), sep)

\* make(rows): rows.map(r => r.map(v => ...).join(",")).join("\n")
make(rows) ==
  join([i \in 1..Len(rows) |->
          join([j \in 1..Len(rows[i]) |-> Field(rows[i][j])], <<",">>)],
       <<"\n">>)

\* ------------------------------------------------------------------ events

Op(op, id, name, credits, amount) ==
  [op |-> op, id |-> id, name |-> name, credits |-> credits, amount |-> amount]

\* An event that only touches a modal or a form: no handler of the store runs,
\* nothing is committed to the store.
UiEvent ==
  /\ prev' = state
  /\ lastOp' = Op("ui", 0, <<>>, Undef, 0)
  /\ renders' = <<>>
  /\ loadedRaw' = Missing
  /\ UNCHANGED <<state, storage, nextId, mounted, ops, view, csvRows, csvOut, renamed>>

NoModal == ~showAdd /\ ~showNew /\ editing = 0 /\ ~showTxn

\* How many ids the updaters of a queue draw from crypto.randomUUID().
Drawn(queue) == Cardinality({k \in 1..Len(queue) : queue[k].u \in {"append", "prepend"}})

\* The names the updatePlatform calls of a queue take from platforms, each
\* with the platform's id.
Renames(platforms, queue) ==
  { <<platforms[i].id, platforms[i].name>> :
      i \in { j \in 1..Len(platforms) :
                \E k \in 1..Len(queue) :
                  /\ queue[k].u = "patch"
                  /\ queue[k].id = platforms[j].id
                  /\ "name" \in DOMAIN queue[k].patch
                  /\ queue[k].patch.name # platforms[j].name } }

\* One event of App: the handler's queue is flushed, the result rendered and,
\* the store having changed, saved by the effect on [state].
Dispatch(eff, op) ==
  LET committed == Flush(state, eff.queue)
  IN /\ eff.queue # <<>> => ops < MaxOps
     /\ state' = IF committed = <<>> THEN state ELSE committed[Len(committed)]
     /\ storage' = IF committed = <<>> THEN storage ELSE saveState(committed[Len(committed)])
     /\ renders' = committed
     /\ nextId' = nextId + Drawn(eff.queue)
     /\ ops' = IF eff.queue = <<>> THEN ops ELSE ops + 1
     /\ prev' = state
     /\ lastOp' = op
     /\ loadedRaw' = Missing
     /\ view' = IF committed = <<>> THEN view ELSE Render(committed[Len(committed)])
     /\ renamed' = renamed \cup Renames(state.platforms, eff.queue)
     /\ UNCHANGED <<mounted, csvRows, csvOut>>

\* App is mounted (first load, or the page is reloaded): useState(loadState),
\* then the effect saves the store.
Mount ==
  /\ state' = loadState(storage)
  /\ storage' = saveState(state')
  /\ showAdd' = FALSE /\ showNew' = FALSE /\ editing' = 0 /\ showTxn' = FALSE
  /\ drawer' = NoDrawer
  /\ mounted' = TRUE
  /\ loadedRaw' = storage
  /\ renders' = << state' >>
  /\ prev' = state'
  /\ lastOp' = Op("mount", 0, <<>>, Undef, 0)
  /\ view' = Render(state')
  /\ UNCHANGED <<nextId, ops, csvRows, csvOut, renamed>>

\* header button "Add platform"
OpenAdd == mounted /\ NoModal /\ showAdd' = TRUE
           /\ UiEvent /\ UNCHANGED <<showNew, editing, showTxn, drawer>>

CloseAdd == mounted /\ showAdd /\ ~showNew /\ showAdd' = FALSE
            /\ UiEvent /\ UNCHANGED <<showNew, editing, showTxn, drawer>>

\* "NEW (custom)" in the Add Platform modal
OpenNew == mounted /\ showAdd /\ ~showNew /\ showNew' = TRUE
           /\ UiEvent /\ UNCHANGED <<showAdd, editing, showTxn, drawer>>

CloseNew == mounted /\ showNew /\ showNew' = FALSE
            /\ UiEvent /\ UNCHANGED <<showAdd, editing, showTxn, drawer>>

\* a preset button of the Add Platform modal
ClickPreset ==
  /\ mounted /\ showAdd /\ ~showNew
  /\ \E i \in 1..Len(PLATFORM_PRESETS) :
       LET key == PLATFORM_PRESETS[i].key
           eff == addPlatform(key, nextId)
       IN /\ Dispatch(eff, Op("addPlatform", 0, key, Undef, 0))
          /\ showAdd' = (showAdd /\ ~eff.closeAdd)
  /\ UNCHANGED <<showNew, editing, showTxn, drawer>>

\* "Create" in NewPlatformModal
CreateCustom ==
  /\ mounted /\ showNew
  /\ \E in \in CustomInputs :
       LET custom == [NewForm EXCEPT !.name = in[1], !.credits = in[2]]
           eff == addCustomPlatform(custom, nextId)
       IN /\ Dispatch(eff, Op("addCustomPlatform", 0, in[1], in[2], 0))
          /\ showAdd' = (showAdd /\ ~eff.closeAdd)
          /\ showNew' = (showNew /\ ~eff.closeNew)
  /\ UNCHANGED <<editing, showTxn, drawer>>

PlatformById(id) == state.platforms[CHOOSE i \in 1..Len(state.platforms) : state.platforms[i].id = id]

\* the edit icon of a platform card
OpenEdit ==
  /\ mounted /\ NoModal
  /\ \E i \in 1..Len(state.platforms) : editing' = state.platforms[i].id
  /\ UiEvent /\ UNCHANGED <<showAdd, showNew, showTxn, drawer>>

CloseEdit == mounted /\ editing # 0 /\ editing' = 0
             /\ UiEvent /\ UNCHANGED <<showAdd, showNew, showTxn, drawer>>

\* "Save" in EditPlatform: onSave(form), the form as the user left it
SaveEdit ==
  /\ mounted /\ editing # 0
  /\ LET p == PlatformById(editing)
     IN \E in \in EditInputs(p) :
          LET patch == [EditForm(p) EXCEPT !.name = in[1], !.credits = in[2]]
          IN Dispatch(updatePlatform(editing, patch),
                      Op("updatePlatform", editing, in[1], Num(in[2]), 0))
  /\ editing' = 0
  /\ UNCHANGED <<showAdd, showNew, showTxn, drawer>>

\* "Remove" in EditPlatform
RemoveEdit ==
  /\ mounted /\ editing # 0
  /\ Dispatch(removePlatform(editing),
              Op("removePlatform", editing, PlatformById(editing).name, Undef, 0))
  /\ editing' = 0
  /\ UNCHANGED <<showAdd, showNew, showTxn, drawer>>

\* the trash icon of a platform card
RemoveCard ==
  /\ mounted /\ NoModal
  /\ \E i \in 1..Len(state.platforms) :
       Dispatch(removePlatform(state.platforms[i].id),
                Op("removePlatform", state.platforms[i].id, state.platforms[i].name, Undef, 0))
  /\ UNCHANGED uiVars

\* header button "Log usage" / "Add transaction"
OpenTxn ==
  /\ mounted /\ NoModal
  /\ showTxn' = TRUE
  /\ drawer' = OpenedDrawer(state.platforms)
  /\ UiEvent /\ UNCHANGED <<showAdd, showNew, editing>>

CloseTxn ==
  /\ mounted /\ showTxn
  /\ showTxn' = FALSE
  /\ drawer' = NoDrawer
  /\ UiEvent /\ UNCHANGED <<showAdd, showNew, editing>>

\* handlePlatformChange(val): the select offers the platforms' names and NEW
handlePlatformChange ==
  /\ mounted /\ showTxn
  /\ \E val \in {state.platforms[i].name : i \in 1..Len(state.platforms)} \cup {NEW_OPTION} :
       /\ drawer' = IF val = NEW_OPTION
                    THEN [drawer EXCEPT !.makeNew = TRUE, !.form.platform = <<>>]
                    ELSE [drawer EXCEPT !.makeNew = FALSE, !.form.platform = val]
       /\ drawer' # drawer
  /\ UiEvent /\ UNCHANGED <<showAdd, showNew, editing, showTxn>>

\* createAndSelect(): "Create & select" in the drawer, with the name the user
\* has typed into the box's Name field
createAndSelect ==
  /\ mounted /\ showTxn /\ drawer.makeNew
  /\ \E name \in NameInputs :
       LET newPf == [NewForm EXCEPT !.name = name]
           trimmed == trim(newPf.name)
       IN IF trimmed = <<>>
          THEN /\ Dispatch(None, Op("createAndSelect", 0, name, newPf.credits, 0))
               /\ UNCHANGED drawer
          ELSE /\ Dispatch(addCustomPlatform(newPf, nextId),      \* onCreatePlatform(newPf)
                           Op("addCustomPlatform", 0, name, newPf.credits, 0))
               /\ drawer' = [drawer EXCEPT !.form.platform = trimmed, !.makeNew = FALSE]
  /\ UNCHANGED <<showAdd, showNew, editing, showTxn>>

\* "Add" in the drawer, with the amount the user has left in the Amount field
ClickAdd ==
  /\ mounted /\ showTxn
  /\ \E amount \in AmountInputs :
       LET form == [drawer.form EXCEPT !.amount = amount]
       IN IF form.platform = <<>>
          THEN /\ Dispatch(None, Op("clickAdd", 0, form.platform, Undef, form.amount))
               /\ UNCHANGED <<showTxn, drawer>>
          ELSE /\ Dispatch(onCreate(form, nextId),
                           Op("onCreate", 0, form.platform, Undef, form.amount))
               /\ showTxn' = FALSE
               /\ drawer' = NoDrawer
  /\ UNCHANGED <<showAdd, showNew, editing>>

\* ------------------------------------------------------------------ specifications

\* A first visit: nothing is stored, App has mounted and its effect has saved.
Init ==
  /\ state = loadState(Missing)
  /\ storage = saveState(loadState(Missing))
  /\ showAdd = FALSE /\ showNew = FALSE /\ editing = 0 /\ showTxn = FALSE
  /\ drawer = NoDrawer
  /\ nextId = FirstFreshId
  /\ mounted = TRUE
  /\ loadedRaw = Missing
  /\ ops = 0
  /\ prev = loadState(Missing)
  /\ lastOp = Op("mount", 0, <<>>, Undef, 0)
  /\ renders = << loadState(Missing) >>
  /\ view = Render(loadState(Missing))
  /\ csvRows = <<>>
  /\ csvOut = <<>>
  /\ renamed = {}

Next ==
  \/ Mount
  \/ OpenAdd \/ CloseAdd \/ OpenNew \/ CloseNew
  \/ ClickPreset \/ CreateCustom
  \/ OpenEdit \/ CloseEdit \/ SaveEdit \/ RemoveEdit \/ RemoveCard
  \/ OpenTxn \/ CloseTxn \/ handlePlatformChange
  \/ createAndSelect \/ ClickAdd

Spec == Init /\ [][Next]_vars

\* ------------------------------------------------------------------ loading

\* How long a stored platform list or transaction list may be.
MaxStored == 2

StoredPlatforms ==
  { [id |-> 101, name |-> Veo, credits |-> 7, color |-> "#22c55e", unit |-> "min",
     account |-> "main", monthlyAllowance |-> 0],
    [id |-> 102, name |-> suno, credits |-> 153, color |-> "#64748b", unit |-> "credits",
     account |-> "team", monthlyAllowance |-> 30] }

\* Transactions an earlier session may have saved: spends and a top-up, dated
\* today, within the cards' 14 days, within the last 30 days, 30 days ago,
\* before that, and tomorrow.
StoredTransactions ==
  { [id |-> 201, platform |-> Veo, amount |-> -2, project |-> "", note |-> "", date |-> Today - 3],
    [id |-> 202, platform |-> suno, amount |-> 40, project |-> "EP", note |-> "top-up", date |-> Today],
    [id |-> 203, platform |-> Veo, amount |-> -50, project |-> "", note |-> "", date |-> Today - 20],
    [id |-> 204, platform |-> Veo, amount |-> -5, project |-> "", note |-> "", date |-> Today - 30],
    [id |-> 205, platform |-> suno, amount |-> -9, project |-> "", note |-> "", date |-> Today - 31],
    [id |-> 206, platform |-> suno, amount |-> -4, project |-> "", note |-> "", date |-> Today + 1],
    [id |-> 207, platform |-> Veo, amount |-> -120, project |-> "", note |-> "", date |-> Today - 1],
    [id |-> 208, platform |-> suno, amount |-> -40, project |-> "", note |-> "", date |-> Today - 2] }

SeqsUpTo(S, n) == UNION { [1..k -> S] : k \in 0..n }

StoredPlatformLists == SeqsUpTo(StoredPlatforms, MaxStored)
StoredTransactionLists == SeqsUpTo(StoredTransactions, MaxStored)

PlatformsMember(P) == << <<"platforms", JArray([i \in 1..Len(P) |-> StringifyPlatform(P[i])])>> >>
TransactionsMember(T) == << <<"transactions", JArray([i \in 1..Len(T) |-> StringifyTransaction(T[i])])>> >>

\* What the storage key may hold when App is mounted: nothing, a text that is
\* empty, not JSON, null or a number, or an object whose platforms and
\* transactions members are each absent, null or an array.
RawInputs ==
  { Missing, Text("empty", <<>>), Text("invalid", <<>>), Text("null", <<>>), Text("number", <<>>) }
  \cup { Text("object", pm \o tm) :
           pm \in {<<>>, << <<"platforms", JNull>> >>} \cup {PlatformsMember(P) : P \in StoredPlatformLists},
           tm \in {<<>>, << <<"transactions", JNull>> >>} \cup {TransactionsMember(T) : T \in StoredTransactionLists} }

EmptyStore == [platforms |-> <<>>, transactions |-> <<>>]

\* The page is about to load with any of the storage contents.
InitLoad ==
  /\ storage \in RawInputs
  /\ state = EmptyStore
  /\ showAdd = FALSE /\ showNew = FALSE /\ editing = 0 /\ showTxn = FALSE
  /\ drawer = NoDrawer
  /\ nextId = FirstFreshId
  /\ mounted = FALSE
  /\ loadedRaw = Missing
  /\ ops = 0
  /\ prev = EmptyStore
  /\ lastOp = Op("none", 0, <<>>, Undef, 0)
  /\ renders = <<>>
  /\ view = NoView
  /\ csvRows = <<>>
  /\ csvOut = <<>>
  /\ renamed = {}

NextLoad == Mount

SpecLoad == InitLoad /\ [][NextLoad]_vars

\* ------------------------------------------------------------------ serializing

\* How many rows, the header included, a table handed to make may have.
MaxCsvRows == 2

\* The values of a table's cells, as String(v) gives them: plain, with a
\* comma, with a quote, with a line break.
CsvCells == { <<"x">>, <<"A", ",", "1">>, <<"B", "\"", "2">>, <<"C", "\n", "3">> }

\* How many cells the rows of a table have.
CsvWidths == {1, 2}

\* The rows of __runDevTests
DevTestRows ==
  << << <<"A", ",", "1">>, <<"B", "\"", "2">>, <<"C", "\n", "3">> >>,
     << <<"x">>, <<"y">>, <<"z">> >> >>

\* The tables handed to make: a header and the rows after it, all of one width.
CsvTables ==
  {DevTestRows} \cup
  UNION { [1..n -> [1..w -> CsvCells]] : n \in 1..MaxCsvRows, w \in CsvWidths }

\* A table is about to be serialized.
InitCsv ==
  /\ csvRows \in CsvTables
  /\ csvOut = <<>>
  /\ storage = Missing
  /\ state = EmptyStore
  /\ showAdd = FALSE /\ showNew = FALSE /\ editing = 0 /\ showTxn = FALSE
  /\ drawer = NoDrawer
  /\ nextId = FirstFreshId
  /\ mounted = FALSE
  /\ loadedRaw = Missing
  /\ ops = 0
  /\ prev = EmptyStore
  /\ lastOp = Op("none", 0, <<>>, Undef, 0)
  /\ renders = <<>>
  /\ view = NoView
  /\ renamed = {}

\* const out = make(rows)
runMake ==
  /\ csvOut = <<>>
  /\ csvOut' = make(csvRows)
  /\ UNCHANGED <<state, storage, uiVars, nextId, mounted, loadedRaw, ops, prev,
                 lastOp, renders, view, csvRows, renamed>>

NextCsv == runMake

SpecCsv == InitCsv /\ [][NextCsv]_vars

\* ------------------------------------------------------------------ properties

Names(platforms) == {platforms[i].name : i \in 1..Len(platforms)}
Ids(items) == {items[i].id : i \in 1..Len(items)}

\* The index of the first platform named name, 0 when none is.
FirstNamed(platforms, name) ==
  IF name \in Names(platforms)
  THEN CHOOSE i \in 1..Len(platforms) :
         platforms[i].name = name /\ \A j \in 1..(i-1) : platforms[j].name # name
  ELSE 0

\* Some platform's name equals name when both are lower-cased.
MatchesIgnoringCase(platforms, name) ==
  \E i \in 1..Len(platforms) : toLowerCase(platforms[i].name) = toLowerCase(name)

\* C1: no two platforms of the store have names that are equal when compared
\* case-insensitively.
C1_UniqueNames ==
  \A i, j \in 1..Len(state.platforms) :
    i # j => toLowerCase(state.platforms[i].name) # toLowerCase(state.platforms[j].name)

\* C2: after a transaction is recorded through the log-usage flow, the
\* transaction heads the list; if a platform has the transaction's platform
\* name, the (first) platform of that name has its credits raised by the
\* amount, and no other platform's credits change; if none has, no credits
\* change.
C2_LogUsageCredits ==
  lastOp.op = "onCreate" =>
    LET i == FirstNamed(prev.platforms, lastOp.name)
    IN /\ Len(state.transactions) = Len(prev.transactions) + 1
       /\ Tail(state.transactions) = prev.transactions
       /\ Head(state.transactions).platform = lastOp.name
       /\ Head(state.transactions).amount = lastOp.amount
       /\ Len(state.platforms) = Len(prev.platforms)
       /\ \A k \in 1..Len(prev.platforms) :
            /\ state.platforms[k].id = prev.platforms[k].id
            /\ state.platforms[k].credits =
                 prev.platforms[k].credits + (IF k = i THEN lastOp.amount ELSE 0)

C2_Witness ==
  /\ lastOp.op = "onCreate"
  /\ lastOp.amount # 0
  /\ FirstNamed(prev.platforms, lastOp.name) # 0
  /\ Len(prev.platforms) > 1

\* C3: removePlatform(id) removes exactly the platform with that id and
\* exactly the transactions whose platform field is that platform's name; the
\* other platforms and transactions stay, unchanged and in order.
C3_RemoveExact ==
  lastOp.op = "removePlatform" =>
    LET removed == prev.platforms[CHOOSE i \in 1..Len(prev.platforms) : prev.platforms[i].id = lastOp.id]
        OtherP(p) == p.id # lastOp.id
        OtherT(t) == t.platform # removed.name
    IN /\ lastOp.id \in Ids(prev.platforms)
       /\ state.platforms = SelectSeq(prev.platforms, OtherP)
       /\ Len(state.platforms) = Len(prev.platforms) - 1
       /\ state.transactions = SelectSeq(prev.transactions, OtherT)

C3_Witness ==
  /\ lastOp.op = "removePlatform"
  /\ Len(state.transactions) < Len(prev.transactions)
  /\ state.transactions # <<>>
  /\ state.platforms # <<>>

\* C4: addPlatform or addCustomPlatform with a name that matches an existing
\* platform's name case-insensitively leaves the platform collection unchanged.
C4_DuplicateRejected ==
  (/\ lastOp.op \in {"addPlatform", "addCustomPlatform"}
   /\ MatchesIgnoringCase(prev.platforms, lastOp.name))
  => state.platforms = prev.platforms

\* C5: a transaction added through the transaction form names a platform that
\* is in the store when the transaction is added.
C5_TxnNamesPlatform ==
  lastOp.op = "onCreate" => Head(state.transactions).platform \in Names(prev.platforms)

\* C6: no store that is rendered or written to storage while a transaction is
\* recorded holds the new transaction with the named platform's credits still
\* at their value from before.
C6_RecordedAsOneUnit ==
  lastOp.op = "onCreate" =>
    LET i == FirstNamed(prev.platforms, lastOp.name)
        Whole(r) ==
          (Ids(r.transactions) # Ids(prev.transactions) /\ i # 0)
            => r.platforms[i].credits = prev.platforms[i].credits + lastOp.amount
    IN /\ \A k \in 1..Len(renders) : Whole(renders[k])
       /\ Whole(loadState(storage))

C6_Witness ==
  /\ lastOp.op = "onCreate"
  /\ lastOp.amount # 0
  /\ FirstNamed(prev.platforms, lastOp.name) # 0
  /\ renders # <<>>
  /\ Ids(renders[1].transactions) # Ids(prev.transactions)

\* C7: addCustomPlatform with a name that is empty after trimming, and the
\* transaction form submitted with no platform selected, leave the platforms
\* and the transactions as they were.
C7_ValidationNoChange ==
  /\ (lastOp.op = "addCustomPlatform" /\ trim(lastOp.name) = <<>>) => state = prev
  /\ (lastOp.op \in {"clickAdd", "onCreate"} /\ lastOp.name = <<>>) => state = prev

C7_Witness ==
  /\ lastOp.op = "addCustomPlatform"
  /\ lastOp.name # <<>>
  /\ trim(lastOp.name) = <<>>

\* The second case of C7 happens too.
C7_WitnessNoPlatform == lastOp.op = "clickAdd" /\ lastOp.name = <<>>

\* C8: once App is mounted, what storage holds loads back as the current
\* store: the same platforms and transactions in the same order.
C8_StorageRoundTrip ==
  mounted => /\ storage.exists
             /\ LET loaded == loadState(storage)
                IN /\ loaded.platforms = state.platforms
                   /\ loaded.transactions = state.transactions

C8_Witness ==
  /\ ops > 1
  /\ lastOp.op = "onCreate"
  /\ state.transactions # initialState.transactions
  /\ state.platforms # initialState.platforms

\* C9: loadState gives the default dataset when the key is missing or its text
\* cannot be parsed; the stored platforms with the default transactions when
\* the object has no transactions member; the default platforms with the
\* stored transactions when it has no platforms member.
C9_LoadStateDefaults ==
  lastOp.op = "mount" =>
    /\ (~loadedRaw.exists \/ loadedRaw.syntax \in {"empty", "invalid"}) => state = initialState
    /\ \A P \in StoredPlatformLists :
         loadedRaw = Text("object", PlatformsMember(P))
           => state.platforms = P /\ state.transactions = initialState.transactions
    /\ \A T \in StoredTransactionLists :
         loadedRaw = Text("object", TransactionsMember(T))
           => state.platforms = initialState.platforms /\ state.transactions = T

C9_Witness ==
  /\ lastOp.op = "mount"
  /\ \E P \in StoredPlatformLists :
       /\ P # <<>>
       /\ loadedRaw = Text("object", PlatformsMember(P))
       /\ state.platforms = P
  /\ state.transactions # <<>>

\* C10: for a name that is non-empty after trimming and matches no existing
\* platform, addPlatform and addCustomPlatform add exactly one platform after
\* the existing ones, which stay as they were; its credits are the requested
\* starting balance: 0 for addPlatform, and for addCustomPlatform the number
\* given, 0 when it is absent or not a number.
C10_AddGrowsByOne ==
  (/\ lastOp.op \in {"addPlatform", "addCustomPlatform"}
   /\ trim(lastOp.name) # <<>>
   /\ ~MatchesIgnoringCase(prev.platforms, trim(lastOp.name)))
  => /\ Len(state.platforms) = Len(prev.platforms) + 1
     /\ SubSeq(state.platforms, 1, Len(prev.platforms)) = prev.platforms
     /\ state.platforms[Len(state.platforms)].credits =
          (IF lastOp.op = "addCustomPlatform" /\ lastOp.credits.t = "num"
           THEN lastOp.credits.n ELSE 0)

C10_Witness ==
  /\ lastOp.op = "addCustomPlatform"
  /\ lastOp.credits.t = "str"
  /\ Len(state.platforms) = Len(prev.platforms) + 1

\* The cases of C10 with a given balance and with a preset happen too.
C10_WitnessBalance ==
  /\ lastOp.op = "addCustomPlatform"
  /\ lastOp.credits.t = "num" /\ lastOp.credits.n # 0
  /\ Len(state.platforms) = Len(prev.platforms) + 1

C10_WitnessPreset ==
  /\ lastOp.op = "addPlatform"
  /\ Len(state.platforms) = Len(prev.platforms) + 1

RECURSIVE SumSpent(_, _)
\* The sum of the absolute values of the amounts of T at the indices I.
SumSpent(I, T) ==
  IF I = {} THEN 0
  ELSE LET i == CHOOSE j \in I : TRUE
       IN Abs(T[i].amount) + SumSpent(I \ {i}, T)

\* A transaction is dated within the last 30 days: not more than 30 days
\* before the moment of the render.
WithinLast30(t, tod) ==
  (Today * TicksPerDay + tod) - t.date * TicksPerDay <= 30 * TicksPerDay

\* C11: dailyBurn is the sum of the absolute values of the negative amounts of
\* the transactions dated within the last 30 days, divided by 30 and rounded
\* to 2 decimals (the hundredth nearest to the quotient); positive amounts and
\* transactions older than 30 days add nothing; for exactly the transactions
\* -120 of one day ago and -40 of two days ago it is 5.33.
C11_DailyBurn ==
  mounted =>
    \A tod \in TimesOfDay :
      LET T == state.transactions
          counted == {i \in 1..Len(T) : T[i].amount < 0 /\ WithinLast30(T[i], tod)}
          spent == SumSpent(counted, T)
          h == view.dailyBurn[tod]
      IN /\ 2 * Abs(30 * h - 100 * spent) <= 30
         /\ (/\ Len(T) = 2
             /\ {<<T[i].amount, T[i].date>> : i \in 1..Len(T)}
                  = {<<-120, Today - 1>>, <<-40, Today - 2>>})
            => h = 533

\* A spend of the last 30 days is counted while an older spend is in the store.
C11_Witness ==
  /\ mounted
  /\ \E i, j \in 1..Len(state.transactions) :
       /\ state.transactions[i].amount < 0 /\ state.transactions[i].date = Today - 3
       /\ state.transactions[j].amount < 0 /\ state.transactions[j].date < Today - 30
  /\ view.dailyBurn[0] = 7

\* The example of C11 happens.
C11_WitnessExample ==
  /\ mounted
  /\ Len(state.transactions) = 2
  /\ {<<state.transactions[i].amount, state.transactions[i].date>> : i \in 1..2}
       = {<<-120, Today - 1>>, <<-40, Today - 2>>}
  /\ \A tod \in TimesOfDay : view.dailyBurn[tod] = 533

\* A top-up of the last 30 days is in the store with a spend, and only the
\* spend is counted.
C11_WitnessTopUp ==
  /\ mounted
  /\ \E i, j \in 1..Len(state.transactions) :
       /\ state.transactions[i].amount > 0 /\ state.transactions[i].date = Today
       /\ state.transactions[j].amount = -50
  /\ view.dailyBurn[0] = 167

\* A spend dated 30 days ago is counted at midnight and not later in the day.
C11_WitnessBoundary ==
  /\ mounted
  /\ \E i \in 1..Len(state.transactions) : state.transactions[i].date = Today - 30
  /\ view.dailyBurn[0] # view.dailyBurn[1]

\* C12: forecastDays is totalCredits divided by dailyBurn, floored to an
\* integer, whenever dailyBurn > 0, and the unbounded sentinel (Infinity)
\* whenever dailyBurn <= 0; for totalCredits 160 and dailyBurn 5.33 it is 30.
C12_ForecastDays ==
  mounted =>
    \A tod \in TimesOfDay :
      LET total == view.totalCredits
          h == view.dailyBurn[tod]
          days == view.forecastDays[tod]
      IN /\ h > 0 => days = Finite((100 * total) \div h)
         /\ h <= 0 => days = Infinity
         /\ (total = 160 /\ h = 533) => days = Finite(30)

\* A reader of quoted CSV text: every field stands in quotes, two quotes inside
\* a field are one quote character, a comma after a field's closing quote
\* starts the next field of the row and a line break there starts the next row.
CsvStart == [ok |-> TRUE, mode |-> "open", rows |-> <<>>, row |-> <<>>, field |-> <<>>]

CsvStep(r, c) ==
  IF ~r.ok THEN r
  ELSE IF r.mode = "open"
       THEN (IF c = "\"" THEN [r EXCEPT !.mode = "inside", !.field = <<>>]
             ELSE [r EXCEPT !.ok = FALSE])
  ELSE IF r.mode = "inside"
       THEN (IF c = "\"" THEN [r EXCEPT !.mode = "quote"]
             ELSE [r EXCEPT !.field = Append(@, c)])
  ELSE \* a quote was read inside a field
       IF c = "\"" THEN [r EXCEPT !.mode = "inside", !.field = Append(@, c)]
       ELSE IF c = "," THEN [r EXCEPT !.mode = "open", !.row = Append(@, r.field)]
       ELSE IF c = "\n" THEN [r EXCEPT !.mode = "open", !.row = <<>>,
                                       !.rows = Append(@, Append(r.row, r.field))]
       ELSE [r EXCEPT !.ok = FALSE]

RECURSIVE CsvRead(_, _)
CsvRead(r, text) == IF text = <<>> THEN r ELSE CsvRead(CsvStep(r, Head(text)), Tail(text))

\* The table the reader finds in a text, <<>> when the text is not quoted CSV.
ReadCsv(text) ==
  LET r == CsvRead(CsvStart, text)
  IN IF r.ok /\ r.mode = "quote" THEN Append(r.rows, Append(r.row, r.field)) ELSE <<>>

RECURSIVE RowBreaks(_, _)
\* How many line breaks of a text stand outside quotes.
RowBreaks(text, quoted) ==
  IF text = <<>> THEN 0
  ELSE IF Head(text) = "\"" THEN RowBreaks(Tail(text), ~quoted)
  ELSE (IF Head(text) = "\n" /\ ~quoted THEN 1 ELSE 0) + RowBreaks(Tail(text), quoted)

C13_WitnessDevTest == csvOut # <<>> /\ csvRows = DevTestRows

RECURSIVE SumSigned(_, _)
\* The sum of the amounts of T at the indices I.
SumSigned(I, T) ==
  IF I = {} THEN 0
  ELSE LET i == CHOOSE j \in I : TRUE
       IN T[i].amount + SumSigned(I \ {i}, T)

\* C14: the series of a platform has exactly 14 daily points, the last one
\* today's, and the point of each day is the sum of the amounts of all of the
\* platform's transactions dated up to and including that day.
C14_Series ==
  mounted =>
    \A p \in 1..Len(state.platforms) :
      LET points == view.series[p]
          T == state.transactions
          name == state.platforms[p].name
      IN /\ Len(points) = 14
         /\ \A i \in 1..Len(points) :
              /\ points[i].date = Today - (14 - i)
              /\ points[i].bal =
                   SumSigned({k \in 1..Len(T) : T[k].platform = name
                                                /\ T[k].date <= points[i].date}, T)

\* C14, amended: the series of a platform has exactly 14 daily points, the
\* last one today's, and the point of each day is the sum of the amounts of
\* the platform's transactions dated within those 14 days, up to and including
\* that day; transactions dated before the first of the 14 days add nothing.
C14_SeriesWindow ==
  mounted =>
    \A p \in 1..Len(state.platforms) :
      LET points == view.series[p]
          T == state.transactions
          name == state.platforms[p].name
      IN /\ Len(points) = 14
         /\ \A i \in 1..Len(points) :
              /\ points[i].date = Today - (14 - i)
              /\ points[i].bal =
                   SumSigned({k \in 1..Len(T) : /\ T[k].platform = name
                                                /\ T[k].date >= points[1].date
                                                /\ T[k].date <= points[i].date}, T)

\* A platform has a transaction dated before its series begins and one within
\* it, and the series ends at the amount of the one within.
C14_Witness ==
  /\ mounted
  /\ \E p \in 1..Len(state.platforms) :
       \E i, j \in 1..Len(state.transactions) :
         /\ state.transactions[i].platform = state.platforms[p].name
         /\ state.transactions[j].platform = state.platforms[p].name
         /\ state.transactions[i].date < Today - 13
         /\ state.transactions[j].date = Today - 3
         /\ view.series[p][14].bal = state.transactions[j].amount
         /\ view.series[p][1].bal = 0

\* One step keeps every transaction it does not remove as it is, and removes
\* transactions only in removePlatform.
C15_Step ==
  mounted =>
    /\ \A i \in 1..Len(state.transactions) :
         \A j \in 1..Len(state'.transactions) :
           state'.transactions[j].id = state.transactions[i].id
             => state'.transactions[j] = state.transactions[i]
    /\ (\E i \in 1..Len(state.transactions) :
          state.transactions[i].id \notin Ids(state'.transactions))
         => lastOp'.op = "removePlatform"

\* C15: transactions are immutable once created: a transaction that is in the
\* store before and after an operation has the same id, platform, amount,
\* project, note and date, and a transaction leaves the store only through
\* removePlatform.
C15_Immutable == [][C15_Step]_vars

\* A platform has been renamed and the transactions recorded under its old
\* name are in the store as they were.
C15_Witness ==
  /\ lastOp.op = "updatePlatform"
  /\ \E p \in 1..Len(prev.platforms) :
       /\ prev.platforms[p].id = lastOp.id
       /\ prev.platforms[p].name # lastOp.name
       /\ \E i \in 1..Len(state.transactions) :
            state.transactions[i].platform = prev.platforms[p].name
  /\ state.transactions = prev.transactions

\* A removePlatform has removed a transaction and kept another.
C15_WitnessRemoved ==
  /\ lastOp.op = "removePlatform"
  /\ state.transactions # <<>>
  /\ Len(state.transactions) < Len(prev.transactions)

\* C16: after updatePlatform changes a platform's name, the transactions
\* recorded under the old name keep the old name as their platform field (no
\* platform has that name any more unless another platform has it); a later
\* removePlatform of the renamed platform removes only transactions whose
\* platform field is the new name, and the transactions of the old name stay
\* in the store.
C16_RenameOrphans ==
  /\ lastOp.op = "updatePlatform" =>
       \A p \in 1..Len(prev.platforms) :
         LET old == prev.platforms[p].name
         IN (prev.platforms[p].id = lastOp.id /\ old # lastOp.name) =>
              /\ \A i \in 1..Len(prev.transactions) :
                   prev.transactions[i].platform = old
                     => /\ i <= Len(state.transactions)
                        /\ state.transactions[i] = prev.transactions[i]
              /\ \A q \in 1..Len(state.platforms) :
                   state.platforms[q].name = old => state.platforms[q].id # lastOp.id
  /\ lastOp.op = "removePlatform" =>
       \A p \in 1..Len(prev.platforms) :
         \A r \in renamed :
           LET now == prev.platforms[p].name
               old == r[2]
               OfOld(t) == t.platform = old
           IN (prev.platforms[p].id = lastOp.id /\ r[1] = lastOp.id /\ old # now) =>
                /\ SelectSeq(state.transactions, OfOld) = SelectSeq(prev.transactions, OfOld)
                /\ \A i \in 1..Len(prev.transactions) :
                     prev.transactions[i].id \notin Ids(state.transactions)
                       => prev.transactions[i].platform = now

\* A renamed platform has been removed, and a transaction recorded under its
\* old name is in the store, naming no platform.
C16_Witness ==
  /\ lastOp.op = "removePlatform"
  /\ \E r \in renamed :
       /\ r[1] = lastOp.id
       /\ r[2] # lastOp.name
       /\ r[2] \notin Names(state.platforms)
       /\ \E i \in 1..Len(state.transactions) : state.transactions[i].platform = r[2]

\* A platform that has transactions has been renamed.
C16_WitnessRenamed ==
  /\ lastOp.op = "updatePlatform"
  /\ \E r \in renamed :
       /\ r[1] = lastOp.id
       /\ r[2] # lastOp.name
       /\ r[2] \notin Names(state.platforms)
       /\ \E i \in 1..Len(state.transactions) : state.transactions[i].platform = r[2]

====
